---- MODULE Spec2Model ----
(***************************************************************************)
(* Model of src/corelib/io/qsettings_wasm.cpp: the two WebAssembly         *)
(* QSettings backends.                                                     *)
(*                                                                         *)
(*  - QWasmIDBSettingsPrivate: settings kept in a QConfFileSettingsPrivate *)
(*    file that is loaded from / stored to IndexedDB by asynchronous       *)
(*    emscripten_idb_async_* requests (specification SpecIDB).             *)
(*  - QWasmLocalStorageSettingsPrivate: settings kept directly in          *)
(*    window.localStorage under prefixed keys (specification SpecLS).      *)
(*                                                                         *)
(* Further specifications draw other inputs for the same actions:          *)
(* SpecChildren (enumeration of children), SpecSep (applications whose     *)
(* names hold the separator), SpecEmptyOrg (an empty organization) and     *)
(* FairSpecIDB (hydration under a host that completes every request).      *)
(***************************************************************************)
EXTENDS Integers, Sequences, FiniteSets, TLC

VARIABLES
    \* ---- QWasmIDBSettingsPrivate and its environment
    liveSettings,   \* QWasmIDBSettingsPrivate::liveSettings: registered addresses
    isReadReady,    \* the file-static flag isReadReady
    status,         \* QSettingsPrivate::status of the object at each address
    path,           \* fileName() of the object at each address
    gen,            \* which object is at each address: the number of its first request
    issued,         \* how many requests the application has issued
    mem,            \* QConfFileSettingsPrivate: in-memory value of the key
    dirty,          \* QConfFileSettingsPrivate: unsaved changes pending
    localFile,      \* the sandbox file system: content of each file
    idb,            \* the IndexedDB store: blob held for each file name
    inflight,       \* emscripten_idb_async_* requests not yet completed
    ownReady,       \* history: setReady() ran for the object's own request
    failed,         \* history: an error callback reached this object
    last,           \* history: the kind of the last step
    \* ---- QWasmLocalStorageSettingsPrivate and window.localStorage
    m_localStorage, \* window.localStorage: physical key -> stored string
    m_keyPrefixes,  \* QWasmLocalStorageSettingsPrivate::m_keyPrefixes
    scope,          \* QSettingsPrivate::scope of the current instance
    organization,   \* QSettingsPrivate::organizationName of the current instance
    application,    \* QSettingsPrivate::applicationName of the current instance
    fallbacks,      \* QSettingsPrivate::fallbacks of the current instance
    lsStatus,       \* QSettingsPrivate::status of the current instance
    lsLast          \* history: the last operation, its arguments and result

idbVars == <<liveSettings, isReadReady, status, path, gen, issued, mem, dirty,
             localFile, idb, inflight, ownReady, failed, last>>
lsVars == <<m_localStorage, m_keyPrefixes, scope, organization, application,
            fallbacks, lsStatus, lsLast>>
vars == <<idbVars, lsVars>>

(***************************************************************************)
(* Bounds                                                                  *)
(***************************************************************************)
MaxReq == 3         \* requests the application issues in a run

Addr == {1, 2}              \* the addresses the allocator places objects at
Paths == {"org/app.conf"}   \* fileName(): the objects are of one organization
                            \* and application
Vals == {"v1"}              \* values the application writes; an earlier
                            \* session may have left the blob "v0"

Absent == "absent"      \* std::nullopt
NoFile == "nofile"      \* the file (or blob) does not exist
NoData == "nodata"      \* a request that carries no payload
NoError == "NoError"
AccessError == "AccessError"
Freed == "freed"        \* no object at this address
EmptyStorage == [k \in {} |-> <<>>]
NoOp == [op |-> "none", key |-> <<>>, val |-> <<>>]

(***************************************************************************)
(* QConfFileSettingsPrivate, the file-backed engine the IDB backend        *)
(* derives from.  One key is stored; the file holds its serialisation.     *)
(***************************************************************************)
Ser(m) == IF m = Absent THEN "" ELSE m
Parse(b) == IF b = "" THEN Absent ELSE b

\* QConfFileSettingsPrivate::sync on file system f for an engine with memory
\* m, pending flag d and file name p: pending changes are written out,
\* otherwise an existing file is read in.
ConfSync(f, m, d, p) ==
    IF d THEN [file |-> [f EXCEPT ![p] = Ser(m)], mem |-> m]
    ELSE IF f[p] # NoFile THEN [file |-> f, mem |-> Parse(f[p])]
    ELSE [file |-> f, mem |-> m]

\* QConfFileSettingsPrivate::initAccess: the engine's initialisation loads
\* its file.
ConfInitAccess(f, m, d, p) == ConfSync(f, m, d, p)

ConfGet(a) == mem[a]
ConfChildren(a) == IF mem[a] = Absent THEN {} ELSE {"key"}
ConfIsWritable(a) == TRUE

(***************************************************************************)
(* QWasmIDBSettingsPrivate                                                 *)
(***************************************************************************)
Request(kind, a, data) ==
    [kind |-> kind, userData |-> a, gen |-> gen[a], path |-> path[a], data |-> data]

\* QWasmIDBSettingsPrivate::get(void *userData): the registry lookup
Lookup(userData) == userData \in liveSettings

\* the request was issued by the object that is now at its address
OwnRequest(r) == r.userData \in liveSettings /\ r.gen = gen[r.userData]

LsIdle == UNCHANGED lsVars

\* what the last step was: a call of the application, or a completion
\* delivered as success or as error
Call == "call"
Success == "success"
Error == "error"


\* QWasmIDBSettingsPrivate::setReady, on file system f
setReady(a, f, own) ==
    LET e == ConfInitAccess(f, mem[a], dirty[a], path[a]) IN
    /\ isReadReady' = TRUE
    /\ status' = [status EXCEPT ![a] = NoError]
    /\ localFile' = e.file
    /\ mem' = [mem EXCEPT ![a] = e.mem]
    /\ dirty' = [dirty EXCEPT ![a] = FALSE]
    /\ ownReady' = [ownReady EXCEPT ![a] = @ \/ own]

\* QWasmIDBSettingsPrivate_onLoad(userData, dataPtr, size); opened is what
\* file.open(QFile::WriteOnly) returns
QWasmIDBSettingsPrivate_onLoad(r, data, opened) ==
    /\ inflight' = inflight \ {r}
    /\ last' = Success
    /\ IF Lookup(r.userData) /\ opened
       THEN setReady(r.userData,
                     [localFile EXCEPT ![path[r.userData]] = data], OwnRequest(r))
       ELSE UNCHANGED <<isReadReady, status, localFile, mem, dirty, ownReady>>
    /\ UNCHANGED <<liveSettings, path, gen, issued, failed>>

\* mutant: the error handler also closes the gate
onError_ClosesGate(r) ==
    /\ inflight' = inflight \ {r}
    /\ last' = Error
    /\ IF Lookup(r.userData)
       THEN /\ status' = [status EXCEPT ![r.userData] = AccessError]
            /\ failed' = [failed EXCEPT ![r.userData] = TRUE]
            /\ isReadReady' = FALSE
       ELSE UNCHANGED <<status, failed, isReadReady>>
    /\ UNCHANGED <<liveSettings, path, gen, issued, mem, dirty, localFile, ownReady>>

\* mutant: the error handler leaves the status as it is
onError_KeepsStatus(r) ==
    /\ inflight' = inflight \ {r}
    /\ last' = Error
    /\ IF Lookup(r.userData)
       THEN failed' = [failed EXCEPT ![r.userData] = TRUE]
       ELSE UNCHANGED failed
    /\ UNCHANGED <<liveSettings, isReadReady, status, path, gen, issued, mem, dirty,
                   localFile, ownReady>>

\* mutant: the error handler issues the failed request again
onError_Retries(r) ==
    /\ inflight' = inflight
    /\ last' = Error
    /\ IF Lookup(r.userData)
       THEN /\ status' = [status EXCEPT ![r.userData] = AccessError]
            /\ failed' = [failed EXCEPT ![r.userData] = TRUE]
       ELSE UNCHANGED <<status, failed>>
    /\ UNCHANGED <<liveSettings, isReadReady, path, gen, issued, mem, dirty, localFile, ownReady>>

\* QWasmIDBSettingsPrivate_onError(userData)
QWasmIDBSettingsPrivate_onError(r) ==
    /\ inflight' = inflight \ {r}
    /\ last' = Error
    /\ IF Lookup(r.userData)
       THEN /\ status' = [status EXCEPT ![r.userData] = AccessError]
            /\ failed' = [failed EXCEPT ![r.userData] = TRUE]
       ELSE UNCHANGED <<status, failed>>
    /\ UNCHANGED <<liveSettings, isReadReady, path, gen, issued, mem, dirty, localFile, ownReady>>

\* QWasmIDBSettingsPrivate_onStore(userData)
QWasmIDBSettingsPrivate_onStore(r) ==
    /\ inflight' = inflight \ {r}
    /\ last' = Success
    /\ IF Lookup(r.userData)
       THEN status' = [status EXCEPT ![r.userData] = NoError]
       ELSE UNCHANGED status
    /\ UNCHANGED <<liveSettings, isReadReady, path, gen, issued, mem, dirty, localFile,
                   ownReady, failed>>

\* QWasmIDBSettingsPrivate_onCheck(userData, exists); loadLocal inlined
QWasmIDBSettingsPrivate_onCheck(r, exists) ==
    /\ last' = Success
    /\ IF Lookup(r.userData)
       THEN IF exists
            THEN /\ inflight' = (inflight \ {r}) \cup {Request("load", r.userData, NoData)}
                 /\ UNCHANGED <<isReadReady, status, localFile, mem, dirty, ownReady>>
            ELSE /\ inflight' = inflight \ {r}
                 /\ setReady(r.userData, localFile, OwnRequest(r))
       ELSE /\ inflight' = inflight \ {r}
            /\ UNCHANGED <<isReadReady, status, localFile, mem, dirty, ownReady>>
    /\ UNCHANGED <<liveSettings, path, gen, issued, failed>>

\* QWasmIDBSettingsPrivate::QWasmIDBSettingsPrivate at address a, for the
\* organization and application whose file name is p
Construct(a, p) ==
    /\ a \notin liveSettings
    /\ issued < MaxReq
    /\ liveSettings' = liveSettings \cup {a}
    /\ issued' = issued + 1
    /\ gen' = [gen EXCEPT ![a] = issued + 1]
    /\ path' = [path EXCEPT ![a] = p]
    /\ status' = [status EXCEPT ![a] = AccessError]
    /\ mem' = [mem EXCEPT ![a] = Absent]
    /\ dirty' = [dirty EXCEPT ![a] = FALSE]
    /\ ownReady' = [ownReady EXCEPT ![a] = FALSE]
    /\ failed' = [failed EXCEPT ![a] = FALSE]
    /\ inflight' = inflight \cup
           {[kind |-> "exists", userData |-> a, gen |-> issued + 1, path |-> p,
             data |-> NoData]}
    /\ last' = Call
    /\ UNCHANGED <<isReadReady, localFile, idb>>
    /\ LsIdle

\* mutant: the destructor leaves the address in the registry
Destroy_StaysRegistered(a) ==
    /\ a \in liveSettings
    /\ status[a] # Freed
    /\ UNCHANGED liveSettings
    /\ status' = [status EXCEPT ![a] = Freed]
    /\ mem' = [mem EXCEPT ![a] = Absent]
    /\ dirty' = [dirty EXCEPT ![a] = FALSE]
    /\ ownReady' = [ownReady EXCEPT ![a] = FALSE]
    /\ failed' = [failed EXCEPT ![a] = FALSE]
    /\ last' = Call
    /\ UNCHANGED <<isReadReady, path, gen, issued, localFile, idb, inflight>>
    /\ LsIdle

\* QWasmIDBSettingsPrivate::~QWasmIDBSettingsPrivate
Destroy(a) ==
    /\ a \in liveSettings
    /\ liveSettings' = liveSettings \ {a}
    /\ status' = [status EXCEPT ![a] = Freed]
    /\ mem' = [mem EXCEPT ![a] = Absent]
    /\ dirty' = [dirty EXCEPT ![a] = FALSE]
    /\ ownReady' = [ownReady EXCEPT ![a] = FALSE]
    /\ failed' = [failed EXCEPT ![a] = FALSE]
    /\ last' = Call
    /\ UNCHANGED <<isReadReady, path, gen, issued, localFile, idb, inflight>>
    /\ LsIdle

\* QWasmIDBSettingsPrivate::get(const QString &key)
get(a) == IF isReadReady THEN ConfGet(a) ELSE Absent

\* QWasmIDBSettingsPrivate::isWritable
isWritable(a) == isReadReady /\ ConfIsWritable(a)

\* QWasmIDBSettingsPrivate::children
children(a) == ConfChildren(a)

Get(a) ==
    /\ a \in liveSettings
    /\ last' = Call
    /\ UNCHANGED <<liveSettings, isReadReady, status, path, gen, issued, mem, dirty,
                   localFile, idb, inflight, ownReady, failed>>
    /\ LsIdle

IsWritable(a) ==
    /\ a \in liveSettings
    /\ last' = Call
    /\ UNCHANGED <<liveSettings, isReadReady, status, path, gen, issued, mem, dirty,
                   localFile, idb, inflight, ownReady, failed>>
    /\ LsIdle

Children(a) ==
    /\ a \in liveSettings
    /\ last' = Call
    /\ UNCHANGED <<liveSettings, isReadReady, status, path, gen, issued, mem, dirty,
                   localFile, idb, inflight, ownReady, failed>>
    /\ LsIdle

\* QConfFileSettingsPrivate::set, inherited: accepted by the engine in memory
Set(a, v) ==
    /\ a \in liveSettings
    /\ mem' = [mem EXCEPT ![a] = v]
    /\ dirty' = [dirty EXCEPT ![a] = TRUE]
    /\ last' = Call
    /\ UNCHANGED <<liveSettings, isReadReady, status, path, gen, issued, localFile, idb,
                   inflight, ownReady, failed>>
    /\ LsIdle

\* QWasmIDBSettingsPrivate::clear
Clear(a) ==
    /\ a \in liveSettings
    /\ issued < MaxReq
    /\ mem' = [mem EXCEPT ![a] = Absent]
    /\ dirty' = [dirty EXCEPT ![a] = TRUE]
    /\ inflight' = inflight \cup {Request("delete", a, NoData)}
    /\ issued' = issued + 1
    /\ last' = Call
    /\ UNCHANGED <<liveSettings, isReadReady, status, path, gen, localFile, idb,
                   ownReady, failed>>
    /\ LsIdle

\* QWasmIDBSettingsPrivate::sync
sync(a) ==
    LET e == ConfSync(localFile, mem[a], dirty[a], path[a]) IN
    /\ localFile' = e.file
    /\ mem' = [mem EXCEPT ![a] = e.mem]
    /\ dirty' = [dirty EXCEPT ![a] = FALSE]
    /\ IF e.file[path[a]] # NoFile
       THEN /\ inflight' = inflight \cup {Request("store", a, e.file[path[a]])}
            /\ issued' = issued + 1
       ELSE UNCHANGED <<inflight, issued>>
    /\ last' = Call
    /\ UNCHANGED <<liveSettings, isReadReady, status, path, gen, idb, ownReady, failed>>

Sync(a) ==
    /\ a \in liveSettings
    /\ issued < MaxReq
    /\ sync(a)
    /\ LsIdle

\* QWasmIDBSettingsPrivate::flush
Flush(a) ==
    /\ a \in liveSettings
    /\ issued < MaxReq
    /\ sync(a)
    /\ LsIdle

(***************************************************************************)
(* The host: each request completes once, with success or with an error.   *)
(***************************************************************************)
CheckCompletes(r) ==
    /\ r \in inflight /\ r.kind = "exists"
    /\ \/ QWasmIDBSettingsPrivate_onCheck(r, idb[r.path] # NoFile)
       \/ QWasmIDBSettingsPrivate_onError(r)
    /\ UNCHANGED idb
    /\ LsIdle

LoadCompletes(r) ==
    /\ r \in inflight /\ r.kind = "load"
    /\ \/ /\ idb[r.path] # NoFile
          /\ \E opened \in BOOLEAN :
                QWasmIDBSettingsPrivate_onLoad(r, idb[r.path], opened)
       \/ QWasmIDBSettingsPrivate_onError(r)
    /\ UNCHANGED idb
    /\ LsIdle

StoreCompletes(r) ==
    /\ r \in inflight /\ r.kind = "store"
    /\ \/ /\ idb' = [idb EXCEPT ![r.path] = r.data]
          /\ QWasmIDBSettingsPrivate_onStore(r)
       \/ /\ UNCHANGED idb
          /\ QWasmIDBSettingsPrivate_onError(r)
    /\ LsIdle

DeleteCompletes(r) ==
    /\ r \in inflight /\ r.kind = "delete"
    /\ \/ /\ idb' = [idb EXCEPT ![r.path] = NoFile]
          /\ QWasmIDBSettingsPrivate_onStore(r)
       \/ /\ UNCHANGED idb
          /\ QWasmIDBSettingsPrivate_onError(r)
    /\ LsIdle

LsInitIdle ==
    /\ m_localStorage = EmptyStorage
    /\ m_keyPrefixes = <<>>
    /\ scope = "UserScope"
    /\ organization = <<>>
    /\ application = <<>>
    /\ fallbacks = TRUE
    /\ lsStatus = NoError
    /\ lsLast = NoOp

InitIDB ==
    /\ liveSettings = {}
    /\ isReadReady = FALSE
    /\ status = [a \in Addr |-> Freed]
    /\ path = [a \in Addr |-> "org/app.conf"]
    /\ gen = [a \in Addr |-> 0]
    /\ issued = 0
    /\ mem = [a \in Addr |-> Absent]
    /\ dirty = [a \in Addr |-> FALSE]
    /\ localFile = [p \in Paths |-> NoFile]
    /\ idb \in [Paths -> {NoFile, "v0"}]
    /\ inflight = {}
    /\ ownReady = [a \in Addr |-> FALSE]
    /\ failed = [a \in Addr |-> FALSE]
    /\ last = Call
    /\ LsInitIdle

NextIDB ==
    \/ \E a \in Addr, p \in Paths : Construct(a, p)
    \/ \E a \in Addr : Destroy(a)
    \/ \E a \in Addr : Get(a)
    \/ \E a \in Addr : IsWritable(a)
    \/ \E a \in Addr : Children(a)
    \/ \E a \in Addr, v \in Vals : Set(a, v)
    \/ \E a \in Addr : Clear(a)
    \/ \E a \in Addr : Sync(a)
    \/ \E a \in Addr : Flush(a)
    \/ \E r \in inflight : CheckCompletes(r)
    \/ \E r \in inflight : LoadCompletes(r)
    \/ \E r \in inflight : StoreCompletes(r)
    \/ \E r \in inflight : DeleteCompletes(r)

SpecIDB == InitIDB /\ [][NextIDB]_vars

\* Hydration under a host that delivers a completion for every request it
\* has accepted: the calls that issue requests or end an object, and the
\* completions.
Completes ==
    \E r \in inflight :
        CheckCompletes(r) \/ LoadCompletes(r) \/ StoreCompletes(r) \/ DeleteCompletes(r)

NextHydration ==
    \/ \E a \in Addr, p \in Paths : Construct(a, p)
    \/ \E a \in Addr : Destroy(a)
    \/ \E a \in Addr : Clear(a)
    \/ \E a \in Addr : Sync(a)
    \/ Completes

FairSpecIDB == InitIDB /\ [][NextHydration]_vars /\ WF_vars(Completes)

(***************************************************************************)
(* Strings are sequences of characters.                                    *)
(***************************************************************************)
MaxEntries == 2     \* entries window.localStorage holds at once

Orgs == {<<"A">>}
Apps == {<<>>, <<"T", "-">>}
Scopes == {"UserScope", "SystemScope"}
Keys == {<<"a">>, <<"a", "b">>, <<"a", "/", "b">>}
Variants == {<<"1">>, <<"@", "1">>}

Null == <<"null">>      \* getItem found nothing; get returns std::nullopt

startsWith(s, p) == Len(p) <= Len(s) /\ SubSeq(s, 1, Len(p)) = p
sliced(s, n) == SubSeq(s, n + 1, Len(s))

\* QString::replace(separator, doubleSeparator)
RECURSIVE replace(_)
replace(s) ==
    IF s = <<>> THEN <<>>
    ELSE IF Head(s) = "-" THEN <<"-", "-">> \o replace(Tail(s))
    ELSE <<Head(s)>> \o replace(Tail(s))

\* QSettingsPrivate::variantToString for a string value
variantToString(v) == IF startsWith(v, <<"@">>) THEN <<"@">> \o v ELSE v

\* QSettingsPrivate::stringToVariant for a string without a typed suffix
stringToVariant(s) == IF startsWith(s, <<"@", "@">>) THEN sliced(s, 1) ELSE s

\* keyNameFromPrefixedStorageName: the key slice after prefix, or an empty
\* view if prefixedStorageName does not start with prefix
keyNameFromPrefixedStorageName(prefix, prefixedStorageName) ==
    IF ~startsWith(prefixedStorageName, prefix) THEN <<>>
    ELSE sliced(prefixedStorageName, Len(prefix))

allAppsSetting == <<"a", "l", "l", "-", "a", "p", "p", "s">>
systemSetting == <<"s", "y", "s", "-", "t", "e", "m">>
separator == <<"-">>
qtTag == <<"q", "t", "-", "v", "0", "-">>

\* mutant: the user-scope prefixes are pushed in every scope
KeyPrefixes_UserAlways(sc, org, app) ==
    LET prefix == qtTag \o replace(org) \o separator
        apps == IF replace(app) # <<>> THEN <<replace(app)>> ELSE <<>>
        names == apps \o <<allAppsSetting>>
    IN [i \in 1..Len(names) |-> prefix \o names[i] \o separator]
       \o [i \in 1..Len(names) |->
              prefix \o names[i] \o separator \o systemSetting \o separator]

\* the constructor's m_keyPrefixes for a non-empty organization
KeyPrefixes(sc, org, app) ==
    LET escapedOrganization == replace(org)
        escapedApplication == replace(app)
        prefix == qtTag \o escapedOrganization \o separator
        user == IF sc = "UserScope"
                THEN (IF escapedApplication # <<>>
                      THEN <<prefix \o escapedApplication \o separator>> ELSE <<>>)
                     \o <<prefix \o allAppsSetting \o separator>>
                ELSE <<>>
        sysApp == IF escapedApplication # <<>>
                  THEN <<prefix \o escapedApplication \o separator \o systemSetting
                         \o separator>>
                  ELSE <<>>
    IN user \o sysApp
       \o <<prefix \o allAppsSetting \o separator \o systemSetting \o separator>>

\* window.localStorage: setItem, removeItem, getItem
setItem(st, k, v) == [x \in DOMAIN st \cup {k} |-> IF x = k THEN v ELSE st[x]]
removeItems(st, ks) == [x \in DOMAIN st \ ks |-> st[x]]
getItem(st, k) == IF k \in DOMAIN st THEN st[k] ELSE Null

\* the orders in which window.localStorage may enumerate its keys with
\* key(i), i < length; the order is kept as long as the store is not changed
RECURSIVE Orders(_)
Orders(keys) ==
    IF keys = {} THEN {<<>>}
    ELSE UNION {{<<k>> \o order : order \in Orders(keys \ {k})} : k \in keys}
KeyOrders(st) == Orders(DOMAIN st)

IdbIdle == UNCHANGED idbVars

\* QWasmLocalStorageSettingsPrivate::QWasmLocalStorageSettingsPrivate
LsConstructed(sc, org, app, fb) ==
    /\ scope' = sc
    /\ organization' = org
    /\ application' = app
    /\ fallbacks' = fb
    /\ IF org = <<>>
       THEN lsStatus' = AccessError /\ m_keyPrefixes' = <<>>
       ELSE lsStatus' = NoError /\ m_keyPrefixes' = KeyPrefixes(sc, org, app)

LsConstruct(sc, org, app, fb) ==
    /\ LsConstructed(sc, org, app, fb)
    /\ lsLast' = [op |-> "construct", key |-> <<>>, val |-> <<>>]
    /\ UNCHANGED m_localStorage
    /\ IdbIdle

\* mutant: only the exact entry is collected
removeChildren_ExactOnly(order, prefixes, key) == {Head(prefixes) \o key}

\* the keys QWasmLocalStorageSettingsPrivate::remove collects in `children`
\* in its first loop, which reads key(i) for every i < length; order is the
\* sequence of keys these reads yield
removeChildren(order, prefixes, key) ==
    {Head(prefixes) \o key} \cup
    {order[i] : i \in
        {j \in DOMAIN order :
            LET storedKeyWithPrefix == order[j]
                storedKey == keyNameFromPrefixedStorageName(Head(prefixes),
                                                            storedKeyWithPrefix)
            IN ~(storedKey = <<>> \/ ~startsWith(storedKey, key))}}

\* QWasmLocalStorageSettingsPrivate::remove: the first loop collects, the
\* second calls removeItem for every collected key
LsRemove(key) ==
    /\ m_keyPrefixes # <<>>
    /\ \E order \in KeyOrders(m_localStorage) :
          LET collected == removeChildren(order, m_keyPrefixes, key) IN
          /\ m_localStorage' = removeItems(m_localStorage, collected)
          /\ lsLast' = [op |-> "remove", key |-> key,
                        val |-> collected \cap DOMAIN m_localStorage]
    /\ UNCHANGED <<m_keyPrefixes, scope, organization, application, fallbacks, lsStatus>>
    /\ IdbIdle

\* mutant: the entry is written under the least specific prefix
setKeyString_LastPrefix(prefixes, key) == prefixes[Len(prefixes)] \o key

\* the physical key QWasmLocalStorageSettingsPrivate::set writes
setKeyString(prefixes, key) == Head(prefixes) \o key

\* QWasmLocalStorageSettingsPrivate::set
LsSet(key, value) ==
    /\ m_keyPrefixes # <<>>
    /\ \/ setKeyString(m_keyPrefixes, key) \in DOMAIN m_localStorage
       \/ Cardinality(DOMAIN m_localStorage) < MaxEntries
    /\ m_localStorage' = setItem(m_localStorage, setKeyString(m_keyPrefixes, key),
                                 variantToString(value))
    /\ lsLast' = [op |-> "set", key |-> key, val |-> value]
    /\ UNCHANGED <<m_keyPrefixes, scope, organization, application, fallbacks, lsStatus>>
    /\ IdbIdle

\* mutant: the loop goes on to the next prefix whatever `fallbacks` says
RECURSIVE lsGet_AlwaysFallsBack(_, _, _, _)
lsGet_AlwaysFallsBack(st, prefixes, fb, key) ==
    IF prefixes = <<>> THEN Null
    ELSE LET value == getItem(st, Head(prefixes) \o key) IN
         IF value # Null THEN stringToVariant(value)
         ELSE lsGet_AlwaysFallsBack(st, Tail(prefixes), fb, key)

\* QWasmLocalStorageSettingsPrivate::get: the loop over m_keyPrefixes
RECURSIVE lsGet(_, _, _, _)
lsGet(st, prefixes, fb, key) ==
    IF prefixes = <<>> THEN Null
    ELSE LET value == getItem(st, Head(prefixes) \o key) IN
         IF value # Null THEN stringToVariant(value)
         ELSE IF ~fb THEN Null
         ELSE lsGet(st, Tail(prefixes), fb, key)

LsGet(key) ==
    /\ lsLast' = [op |-> "get", key |-> key,
                  val |-> lsGet(m_localStorage, m_keyPrefixes, fallbacks, key)]
    /\ UNCHANGED <<m_localStorage, m_keyPrefixes, scope, organization, application,
                   fallbacks, lsStatus>>
    /\ IdbIdle

\* mutant: one loop that calls removeItem while it reads key(i); the store
\* closes the gap a removed key leaves, so the key that followed it is never
\* read
RECURSIVE clearKeys_OnePass(_, _)
clearKeys_OnePass(order, prefixes) ==
    IF order = <<>> THEN {}
    ELSE IF keyNameFromPrefixedStorageName(Head(prefixes), Head(order)) # <<>>
         THEN {Head(order)} \cup
              (IF Len(order) >= 2 THEN clearKeys_OnePass(Tail(Tail(order)), prefixes)
               ELSE {})
         ELSE clearKeys_OnePass(Tail(order), prefixes)

\* the keys QWasmLocalStorageSettingsPrivate::clear removes: its first loop
\* reads key(i) for every i < length into `keys` (order), its second loop
\* calls removeItem for those under the first prefix
clearKeys(order, prefixes) ==
    {order[i] : i \in
        {j \in DOMAIN order :
            keyNameFromPrefixedStorageName(Head(prefixes), order[j]) # <<>>}}

\* QWasmLocalStorageSettingsPrivate::clear
LsClear ==
    /\ m_keyPrefixes # <<>>
    /\ \E order \in KeyOrders(m_localStorage) :
          LET removed == clearKeys(order, m_keyPrefixes) IN
          /\ m_localStorage' = removeItems(m_localStorage, removed)
          /\ lsLast' = [op |-> "clear", key |-> <<>>, val |-> removed]
    /\ UNCHANGED <<m_keyPrefixes, scope, organization, application, fallbacks, lsStatus>>
    /\ IdbIdle

\* QWasmLocalStorageSettingsPrivate::sync and flush do nothing
LsSync ==
    /\ lsLast' = [op |-> "sync", key |-> <<>>, val |-> <<>>]
    /\ UNCHANGED <<m_localStorage, m_keyPrefixes, scope, organization, application,
                   fallbacks, lsStatus>>
    /\ IdbIdle

LsFlush ==
    /\ lsLast' = [op |-> "flush", key |-> <<>>, val |-> <<>>]
    /\ UNCHANGED <<m_localStorage, m_keyPrefixes, scope, organization, application,
                   fallbacks, lsStatus>>
    /\ IdbIdle

\* QWasmLocalStorageSettingsPrivate::isWritable
LsIsWritable ==
    /\ lsLast' = [op |-> "isWritable", key |-> <<>>, val |-> TRUE]
    /\ UNCHANGED <<m_localStorage, m_keyPrefixes, scope, organization, application,
                   fallbacks, lsStatus>>
    /\ IdbIdle

ChildSpecs == {"AllKeys", "ChildKeys", "ChildGroups"}
ChildPrefixes == {<<>>, <<"a">>, <<"a", "/">>}

\* QStringView::indexOf, counting from 0; -1 if c does not occur in s
indexOf(s, c) ==
    IF \A i \in DOMAIN s : s[i] # c THEN -1
    ELSE (CHOOSE i \in DOMAIN s : s[i] = c /\ \A j \in 1..(i - 1) : s[j] # c) - 1

\* QSettingsPrivate::processChild(key, spec, result) on an empty result list:
\* the list after the call
processChild(key, spec) ==
    LET slashPos == indexOf(key, "/") IN
    IF spec = "AllKeys" THEN <<key>>
    ELSE IF slashPos = -1
         THEN (IF spec # "ChildKeys" THEN <<>> ELSE <<key>>)
         ELSE (IF spec # "ChildGroups" THEN <<>> ELSE <<SubSeq(key, 1, slashPos)>>)

\* mutant: nodes is a list, every child is appended
insert_Appending(nodes, child) == Append(nodes, child)

\* QSet::insert on nodes, kept in the order in which its elements will be
\* listed
insert(nodes, child) ==
    IF \E i \in DOMAIN nodes : nodes[i] = child THEN nodes ELSE Append(nodes, child)

\* QWasmLocalStorageSettingsPrivate::children: the inner loop, over the scope
\* prefixes, for the stored key keyString
RECURSIVE childrenOfKey(_, _, _, _, _, _)
childrenOfKey(keyString, prefixes, fb, prefix, spec, nodes) ==
    IF prefixes = <<>> THEN nodes
    ELSE LET key == keyNameFromPrefixedStorageName(Head(prefixes), keyString)
             childList == IF key # <<>> /\ startsWith(key, prefix)
                          THEN processChild(sliced(key, Len(prefix)), spec)
                          ELSE <<>>
             inserted == IF childList # <<>> THEN insert(nodes, Head(childList))
                         ELSE nodes
         IN IF ~fb THEN inserted
            ELSE childrenOfKey(keyString, Tail(prefixes), fb, prefix, spec, inserted)

\* QWasmLocalStorageSettingsPrivate::children: the outer loop, over the keys
\* of window.localStorage in the order key(i) yields them
RECURSIVE lsChildren(_, _, _, _, _, _)
lsChildren(keys, prefixes, fb, prefix, spec, nodes) ==
    IF keys = <<>> THEN nodes
    ELSE lsChildren(Tail(keys), prefixes, fb, prefix, spec,
                    childrenOfKey(Head(keys), prefixes, fb, prefix, spec, nodes))

LsChildren(prefix, spec) ==
    /\ \E order \in KeyOrders(m_localStorage) :
          lsLast' = [op |-> "children", key |-> prefix,
                     val |-> [spec |-> spec,
                              names |-> lsChildren(order, m_keyPrefixes, fallbacks,
                                                   prefix, spec, <<>>)]]
    /\ UNCHANGED <<m_localStorage, m_keyPrefixes, scope, organization, application,
                   fallbacks, lsStatus>>
    /\ IdbIdle

IdbInitIdle ==
    /\ liveSettings = {}
    /\ isReadReady = FALSE
    /\ status = [a \in Addr |-> Freed]
    /\ path = [a \in Addr |-> "org/app.conf"]
    /\ gen = [a \in Addr |-> 0]
    /\ issued = 0
    /\ mem = [a \in Addr |-> Absent]
    /\ dirty = [a \in Addr |-> FALSE]
    /\ localFile = [p \in Paths |-> NoFile]
    /\ idb = [p \in Paths |-> NoFile]
    /\ inflight = {}
    /\ ownReady = [a \in Addr |-> FALSE]
    /\ failed = [a \in Addr |-> FALSE]
    /\ last = Call

\* an instance has been constructed; window.localStorage is empty
InitLS ==
    /\ m_localStorage = EmptyStorage
    /\ lsLast = NoOp
    /\ \E sc \in Scopes, org \in Orgs, app \in Apps, fb \in BOOLEAN :
          /\ scope = sc
          /\ organization = org
          /\ application = app
          /\ fallbacks = fb
          /\ lsStatus = NoError
          /\ m_keyPrefixes = KeyPrefixes(sc, org, app)
    /\ IdbInitIdle

NextLS ==
    \/ \E sc \in Scopes, org \in Orgs, app \in Apps, fb \in BOOLEAN :
          LsConstruct(sc, org, app, fb)
    \/ \E key \in Keys : LsRemove(key)
    \/ \E key \in Keys, value \in Variants : LsSet(key, value)
    \/ \E key \in Keys : LsGet(key)
    \/ LsClear
    \/ LsSync
    \/ LsFlush
    \/ LsIsWritable

SpecLS == InitLS /\ [][NextLS]_vars

(***************************************************************************)
(* Enumeration of children: entries are written through instances of       *)
(* every scope and application and listed through children().              *)
(***************************************************************************)
ChildKeys == {<<"a">>, <<"a", "/", "b">>}

NextChildren ==
    \/ \E sc \in Scopes, org \in Orgs, app \in Apps, fb \in BOOLEAN :
          LsConstruct(sc, org, app, fb)
    \/ \E key \in ChildKeys : LsSet(key, <<"1">>)
    \/ \E key \in ChildKeys : LsRemove(key)
    \/ \E prefix \in ChildPrefixes, spec \in ChildSpecs : LsChildren(prefix, spec)

SpecChildren == InitLS /\ [][NextChildren]_vars

(***************************************************************************)
(* Two settings objects of one scope whose names hold the separator: the   *)
(* applications "T" and "T-" of one organization, and keys with and        *)
(* without a leading "--".  The instance in the variables is the one that  *)
(* is operated on; constructing switches to the other one.                 *)
(***************************************************************************)
SepApps == {<<"T">>, <<"T", "-">>}
SepKeys == {<<"a">>, <<"-", "-", "a">>}

InitSep ==
    /\ m_localStorage = EmptyStorage
    /\ lsLast = NoOp
    /\ \E org \in Orgs, app \in SepApps, fb \in BOOLEAN :
          /\ scope = "UserScope"
          /\ organization = org
          /\ application = app
          /\ fallbacks = fb
          /\ lsStatus = NoError
          /\ m_keyPrefixes = KeyPrefixes("UserScope", org, app)
    /\ IdbInitIdle

NextSep ==
    \/ \E org \in Orgs, app \in SepApps, fb \in BOOLEAN :
          LsConstruct("UserScope", org, app, fb)
    \/ \E key \in SepKeys : LsRemove(key)
    \/ \E key \in SepKeys, value \in Variants : LsSet(key, value)
    \/ \E key \in SepKeys : LsGet(key)
    \/ LsClear

SpecSep == InitSep /\ [][NextSep]_vars

(***************************************************************************)
(* Instances constructed with an empty organization.                       *)
(*                                                                         *)
(* The localStorage constructor returns before it fills m_keyPrefixes, so  *)
(* set, remove and clear evaluate m_keyPrefixes.first() on an empty list.  *)
(* That is undefined behaviour: the build stops (QList asserts that the    *)
(* list is not empty, or the read faults), or the read yields some string. *)
(* The IDB constructor does not look at the organization.                  *)
(***************************************************************************)
Fault == [op |-> "fault", key |-> <<>>, val |-> <<>>]
Running == lsLast # Fault
FirstOfEmpty == {<<>>, <<"?">>}     \* strings the invalid read may yield
EmptyOrgPath == "/app.conf"         \* fileName() for an empty organization
EmptyOrgAddr == {1}

\* QWasmLocalStorageSettingsPrivate::set with m_keyPrefixes empty
LsSetNoPrefix(key, value) ==
    /\ m_keyPrefixes = <<>>
    /\ \/ /\ lsLast' = Fault
          /\ UNCHANGED m_localStorage
       \/ \E first \in FirstOfEmpty :
             /\ \/ setKeyString(<<first>>, key) \in DOMAIN m_localStorage
                \/ Cardinality(DOMAIN m_localStorage) < MaxEntries
             /\ m_localStorage' = setItem(m_localStorage, setKeyString(<<first>>, key),
                                          variantToString(value))
             /\ lsLast' = [op |-> "set", key |-> key, val |-> value]
    /\ UNCHANGED <<m_keyPrefixes, scope, organization, application, fallbacks, lsStatus>>
    /\ IdbIdle

\* QWasmLocalStorageSettingsPrivate::remove with m_keyPrefixes empty
LsRemoveNoPrefix(key) ==
    /\ m_keyPrefixes = <<>>
    /\ \/ /\ lsLast' = Fault
          /\ UNCHANGED m_localStorage
       \/ \E first \in FirstOfEmpty, order \in KeyOrders(m_localStorage) :
             /\ m_localStorage' =
                    removeItems(m_localStorage, removeChildren(order, <<first>>, key))
             /\ lsLast' = [op |-> "remove", key |-> key,
                           val |-> removeChildren(order, <<first>>, key)
                                     \cap DOMAIN m_localStorage]
    /\ UNCHANGED <<m_keyPrefixes, scope, organization, application, fallbacks, lsStatus>>
    /\ IdbIdle

\* QWasmLocalStorageSettingsPrivate::clear with m_keyPrefixes empty: first()
\* is evaluated once for every stored key
LsClearNoPrefix ==
    /\ m_keyPrefixes = <<>>
    /\ IF m_localStorage = EmptyStorage
       THEN /\ lsLast' = [op |-> "clear", key |-> <<>>, val |-> {}]
            /\ UNCHANGED m_localStorage
       ELSE \/ /\ lsLast' = Fault
               /\ UNCHANGED m_localStorage
            \/ \E first \in FirstOfEmpty, order \in KeyOrders(m_localStorage) :
                  /\ m_localStorage' =
                         removeItems(m_localStorage, clearKeys(order, <<first>>))
                  /\ lsLast' = [op |-> "clear", key |-> <<>>,
                                val |-> clearKeys(order, <<first>>)]
    /\ UNCHANGED <<m_keyPrefixes, scope, organization, application, fallbacks, lsStatus>>
    /\ IdbIdle

\* a localStorage instance has been constructed with an empty organization;
\* no IDB object exists yet
InitEmptyOrg ==
    /\ m_localStorage = EmptyStorage
    /\ lsLast = NoOp
    /\ \E sc \in Scopes, app \in Apps, fb \in BOOLEAN :
          /\ scope = sc
          /\ organization = <<>>
          /\ application = app
          /\ fallbacks = fb
          /\ lsStatus = AccessError
          /\ m_keyPrefixes = <<>>
    /\ liveSettings = {}
    /\ isReadReady = FALSE
    /\ status = [a \in Addr |-> Freed]
    /\ path = [a \in Addr |-> EmptyOrgPath]
    /\ gen = [a \in Addr |-> 0]
    /\ issued = 0
    /\ mem = [a \in Addr |-> Absent]
    /\ dirty = [a \in Addr |-> FALSE]
    /\ localFile = [p \in {EmptyOrgPath} |-> NoFile]
    /\ idb \in [{EmptyOrgPath} -> {NoFile, "v0"}]
    /\ inflight = {}
    /\ ownReady = [a \in Addr |-> FALSE]
    /\ failed = [a \in Addr |-> FALSE]
    /\ last = Call

\* the run follows one settings object: operations of the localStorage
\* instance while no IDB object has been constructed, or IDB objects while
\* the localStorage instance has not been used
LsInUse == Running /\ issued = 0
IdbInUse == lsLast = NoOp

NextEmptyOrg ==
    \/ LsInUse /\ \E sc \in Scopes, app \in Apps, fb \in BOOLEAN :
                     LsConstruct(sc, <<>>, app, fb)
    \/ LsInUse /\ \E key \in Keys, value \in Variants : LsSetNoPrefix(key, value)
    \/ LsInUse /\ \E key \in Keys : LsRemoveNoPrefix(key)
    \/ LsInUse /\ LsClearNoPrefix
    \/ LsInUse /\ \E key \in Keys : LsGet(key)
    \/ IdbInUse /\ \E a \in EmptyOrgAddr : Construct(a, EmptyOrgPath)
    \/ IdbInUse /\ \E a \in EmptyOrgAddr : Destroy(a)
    \/ IdbInUse /\ \E a \in EmptyOrgAddr, v \in Vals : Set(a, v)
    \/ IdbInUse /\ \E a \in EmptyOrgAddr : Clear(a)
    \/ IdbInUse /\ \E a \in EmptyOrgAddr : Sync(a)
    \/ IdbInUse /\ \E r \in inflight : CheckCompletes(r)
    \/ IdbInUse /\ \E r \in inflight : LoadCompletes(r)
    \/ IdbInUse /\ \E r \in inflight : StoreCompletes(r)
    \/ IdbInUse /\ \E r \in inflight : DeleteCompletes(r)

SpecEmptyOrg == InitEmptyOrg /\ [][NextEmptyOrg]_vars

(***************************************************************************)
(* Properties of the IDB backend, checked under SpecIDB                    *)
(***************************************************************************)
\* the completions delivered in a step, and those delivered for address a
Delivered == inflight \ inflight'
DeliveredTo(a) == {r \in Delivered : r.userData = a}
\* the object at address a before the step is still there after it
SameObject(a) == a \in liveSettings /\ a \in liveSettings' /\ gen'[a] = gen[a]

\* C1: a completion of a request whose issuing object has been destroyed
\* changes no object's status, nor the readiness gate, nor the local file,
\* even when a later object has been placed at the issuer's address.
C1_PostDestructionSafety ==
    [][\A r \in Delivered :
         ~OwnRequest(r) => UNCHANGED <<status, isReadReady, localFile>>]_vars

\* C2: once the readiness gate is open it is never closed again, whatever
\* operation or completion callback runs.
C2_ReadinessMonotonic == [][isReadReady => isReadReady']_vars

\* C2 witness: the gate is open in a state reached by an error callback
\* delivered to a live object.
C2_Witness == isReadReady /\ last = Error /\ \E a \in liveSettings : failed[a]

C4_PerInstanceGate ==
    \A a \in liveSettings : ~ownReady[a] => (get(a) = Absent /\ ~isWritable(a))

\* C5: no sync or flush issues a store request while the readiness gate is
\* closed.
C5_WritesDeferred ==
    [][\A r \in inflight' \ inflight : r.kind = "store" => isReadReady]_vars

(***************************************************************************)
(* Properties of the localStorage backend, checked under SpecLS            *)
(***************************************************************************)
Min(S) == CHOOSE i \in S : \A j \in S : i <= j
prefix0 == Head(m_keyPrefixes)

\* the four prefixes an organization and application give rise to
OrgPrefix(org) == qtTag \o replace(org) \o <<"-">>
AppPrefix(org, app) == OrgPrefix(org) \o replace(app) \o <<"-">>
AllAppsPrefix(org) == OrgPrefix(org) \o allAppsSetting \o <<"-">>
AppSysPrefix(org, app) == AppPrefix(org, app) \o systemSetting \o <<"-">>
AllAppsSysPrefix(org) == AllAppsPrefix(org) \o systemSetting \o <<"-">>

\* physicalKey is a strict hierarchical descendant of key under prefix
StrictDescendant(physicalKey, prefix, key) ==
    /\ startsWith(physicalKey, prefix \o key \o <<"/">>)
    /\ Len(physicalKey) > Len(prefix \o key \o <<"/">>)

\* C6: get(key) right after set(key, value) on the same instance returns
\* value, whatever the store held before and whatever the scope, the
\* application and the fallbacks flag are.
C6_SetGetRoundTrip ==
    [][(lsLast.op = "set" /\ lsLast'.op = "get" /\ lsLast'.key = lsLast.key)
          => lsLast'.val = lsLast.val]_vars

\* C6 witness: get has returned the value "@1", which an earlier set left
\* under prefix[0] in its rendered form "@@1".
C6_Witness ==
    /\ lsLast.op = "get"
    /\ lsLast.val = <<"@", "1">>
    /\ getItem(m_localStorage, prefix0 \o lsLast.key) = <<"@", "@", "1">>

\* C7: get(key) returns the parsed value of the entry under the earliest
\* consulted prefix that has one, where all prefixes are consulted with
\* fallbacks enabled and only prefix[0] otherwise; absent if none has one.
C7_FallbackResolution ==
    lsLast.op = "get" =>
        LET consulted == IF fallbacks THEN 1..Len(m_keyPrefixes) ELSE {1}
            hits == {i \in consulted :
                        (m_keyPrefixes[i] \o lsLast.key) \in DOMAIN m_localStorage}
        IN IF hits = {} THEN lsLast.val = Null
           ELSE lsLast.val =
                  stringToVariant(m_localStorage[m_keyPrefixes[Min(hits)] \o lsLast.key])

\* C7 witness: with entries for the key under both the first and the second
\* prefix, holding different values, get has returned the first one.
C7_Witness ==
    /\ lsLast.op = "get"
    /\ fallbacks
    /\ Len(m_keyPrefixes) >= 2
    /\ (m_keyPrefixes[1] \o lsLast.key) \in DOMAIN m_localStorage
    /\ (m_keyPrefixes[2] \o lsLast.key) \in DOMAIN m_localStorage
    /\ m_localStorage[m_keyPrefixes[1] \o lsLast.key]
         # m_localStorage[m_keyPrefixes[2] \o lsLast.key]

\* C8 as stated: User scope has exactly the app and all-apps prefixes, System
\* scope has those two followed by their sys-tem variants, and the first
\* element is the org+app user-scope prefix.
C8_PrefixesAsStated ==
    LET org == organization
        app == application
        user == (IF app # <<>> THEN <<AppPrefix(org, app)>> ELSE <<>>)
                \o <<AllAppsPrefix(org)>>
        sys == (IF app # <<>> THEN <<AppSysPrefix(org, app)>> ELSE <<>>)
               \o <<AllAppsSysPrefix(org)>>
    IN organization # <<>> =>
         /\ m_keyPrefixes # <<>>
         /\ m_keyPrefixes = IF scope = "UserScope" THEN user ELSE user \o sys
         /\ app # <<>> => prefix0 = AppPrefix(org, app)

\* C8 amended: User scope has the app and all-apps prefixes followed by
\* their sys-tem variants, System scope has the two sys-tem prefixes only
\* (app-specific entries omitted when the application is empty); the list is
\* not empty and its first element is the most specific prefix of the
\* instance's own scope.
C8_PrefixesOfCode ==
    LET org == organization
        app == application
        user == (IF app # <<>> THEN <<AppPrefix(org, app)>> ELSE <<>>)
                \o <<AllAppsPrefix(org)>>
        sys == (IF app # <<>> THEN <<AppSysPrefix(org, app)>> ELSE <<>>)
               \o <<AllAppsSysPrefix(org)>>
    IN organization # <<>> =>
         /\ m_keyPrefixes # <<>>
         /\ m_keyPrefixes = IF scope = "UserScope" THEN user \o sys ELSE sys
         /\ prefix0 = IF scope = "UserScope"
                      THEN (IF app # <<>> THEN AppPrefix(org, app)
                            ELSE AllAppsPrefix(org))
                      ELSE (IF app # <<>> THEN AppSysPrefix(org, app)
                            ELSE AllAppsSysPrefix(org))

\* C8 witness: a System-scope instance with an application has been
\* constructed.
C8_Witness ==
    /\ lsLast.op = "construct"
    /\ scope = "SystemScope"
    /\ application # <<>>
    /\ Len(m_keyPrefixes) = 2

\* C9: after remove(key) the store holds neither prefix[0] + key nor any
\* strict descendant of key under prefix[0].
C9_RemoveRecursive ==
    lsLast.op = "remove" =>
        \A physicalKey \in DOMAIN m_localStorage :
            /\ physicalKey # prefix0 \o lsLast.key
            /\ ~StrictDescendant(physicalKey, prefix0, lsLast.key)

\* C9 witness: remove(key) has deleted the entry of key and one of a
\* descendant of key.
C9_Witness ==
    /\ lsLast.op = "remove"
    /\ (prefix0 \o lsLast.key) \in lsLast.val
    /\ \E physicalKey \in lsLast.val : StrictDescendant(physicalKey, prefix0, lsLast.key)

\* C10: remove(key) leaves in place, with its value, every entry that is
\* neither prefix[0] + key nor a strict descendant of key under prefix[0].
C10_RemoveFrame ==
    [][lsLast'.op = "remove" =>
         \A physicalKey \in DOMAIN m_localStorage :
            (/\ physicalKey # prefix0 \o lsLast'.key
             /\ ~StrictDescendant(physicalKey, prefix0, lsLast'.key))
            => /\ physicalKey \in DOMAIN m_localStorage'
               /\ m_localStorage'[physicalKey] = m_localStorage[physicalKey]]_vars


(***************************************************************************)
(* Separation of settings objects, checked under SpecSep                   *)
(***************************************************************************)
\* C11: a set, remove or clear on the instance of one (organization,
\* application) pair creates, changes or deletes no entry that an instance
\* of another pair in the same scope reads under its own app-specific
\* prefix, also when names and keys contain the separator.
C11_SeparateSettings ==
    [][lsLast'.op \in {"set", "remove", "clear"} =>
         \A org \in Orgs, app \in SepApps :
            <<org, app>> # <<organization, application>> =>
               \A key \in SepKeys :
                  getItem(m_localStorage', AppPrefix(org, app) \o key)
                    = getItem(m_localStorage, AppPrefix(org, app) \o key)]_vars

(***************************************************************************)
(* Empty organization, checked under SpecEmptyOrg                          *)
(***************************************************************************)
\* C12: an instance of either backend constructed with an empty
\* organization has status AccessError in every state from construction
\* on, no entry is written to or deleted from window.localStorage, no store
\* or delete request is issued to IndexedDB, and no operation faults.
C12_EmptyOrganization ==
    /\ \A a \in liveSettings : path[a] = EmptyOrgPath => status[a] = AccessError
    /\ \A r \in inflight : r.path = EmptyOrgPath => r.kind \notin {"store", "delete"}
    /\ organization = <<>> =>
          /\ lsStatus = AccessError
          /\ m_localStorage = EmptyStorage
          /\ lsLast # Fault

(***************************************************************************)
(* children of the localStorage backend, checked under SpecChildren        *)
(***************************************************************************)
\* C13: children(keyPrefix, spec) lists every child name at most once; each
\* listed name comes from a stored entry that, with one of the consulted
\* prefixes stripped, has a non-empty logical key that starts with
\* keyPrefix and yields that name; with fallbacks disabled only prefix[0] is
\* consulted; and with only x stored under prefix[0], children("") of the
\* keys is exactly [x].
C13_ChildrenSet ==
    lsLast.op = "children" =>
        LET names == lsLast.val.names
            spec == lsLast.val.spec
            keyPrefix == lsLast.key
            consulted == IF fallbacks THEN 1..Len(m_keyPrefixes) ELSE {1}
        IN /\ \A i, j \in DOMAIN names : names[i] = names[j] => i = j
           /\ \A i \in DOMAIN names :
                 \E physicalKey \in DOMAIN m_localStorage, n \in consulted :
                    LET key == keyNameFromPrefixedStorageName(m_keyPrefixes[n],
                                                              physicalKey)
                    IN /\ key # <<>>
                       /\ startsWith(key, keyPrefix)
                       /\ processChild(sliced(key, Len(keyPrefix)), spec)
                            = <<names[i]>>
           /\ \A x \in ChildKeys :
                 (/\ DOMAIN m_localStorage = {prefix0 \o x}
                  /\ indexOf(x, "/") = -1
                  /\ keyPrefix = <<>>
                  /\ spec = "ChildKeys")
                 => names = <<x>>

\* C13 witness: with fallbacks enabled, two stored entries under different
\* prefixes yield the same child name, and children lists it once.
C13_Witness ==
    /\ lsLast.op = "children"
    /\ fallbacks
    /\ Len(lsLast.val.names) = 1
    /\ \E n1, n2 \in DOMAIN m_keyPrefixes :
          /\ n1 # n2
          /\ \E k \in ChildKeys :
                /\ DOMAIN m_localStorage = {m_keyPrefixes[n1] \o k, m_keyPrefixes[n2] \o k}
                /\ startsWith(k, lsLast.key)
                /\ processChild(sliced(k, Len(lsLast.key)), lsLast.val.spec)
                     = <<lsLast.val.names[1]>>

(***************************************************************************)
(* Hydration of the IDB backend, checked under SpecIDB                     *)
(***************************************************************************)
\* get and isWritable of the object at address a are answered by the engine
Ready(a) == a \in liveSettings /\ isReadReady
\* the object at address a after the step is Ready and was not before
EntersReady(a) == Ready(a)' /\ ~(SameObject(a) /\ Ready(a))

\* C14: an object enters Ready only in the step that delivers the success
\* of its own existence check with the file absent, or the success of its
\* own load, after which the local file holds the bytes delivered; and the
\* success of its existence check with the file present issues exactly one
\* load request and does not make it Ready.
C14_GateOpensByHydration ==
    [][\A a \in Addr :
         /\ EntersReady(a) =>
               \E r \in DeliveredTo(a) :
                  /\ r.gen = gen'[a]
                  /\ last' = Success
                  /\ \/ r.kind = "exists" /\ idb[r.path] = NoFile
                     \/ r.kind = "load" /\ localFile'[path[a]] = idb[r.path]
         /\ \A r \in DeliveredTo(a) :
               (/\ r.kind = "exists"
                /\ OwnRequest(r)
                /\ last' = Success
                /\ idb[r.path] # NoFile)
               => /\ inflight' \ inflight = {Request("load", a, NoData)}
                  /\ ~EntersReady(a)]_vars

\* C15: an object whose status is NoError has had its own existence check
\* (and load) completed successfully, whatever calls of clear, sync and
\* flush and whatever store and delete completions came before.
C15_AccessErrorUntilLoaded ==
    \A a \in liveSettings : status[a] = NoError => ownReady[a]

\* the requests issued in a step
Issued == inflight' \ inflight

C17_RegistryInvariant ==
    /\ \A a \in Addr : Lookup(a) <=> status[a] # Freed
    /\ \A r \in inflight :
          (status[r.userData] # Freed /\ r.gen = gen[r.userData]) => Lookup(r.userData)

\* C17 witness: an object has been destroyed while its request is in
\* flight, its address is not registered, and another object is alive.
C17_Witness ==
    \E a \in Addr :
        /\ ~Lookup(a)
        /\ \E r \in inflight : r.userData = a /\ r.gen = gen[a]
        /\ liveSettings # {}

(***************************************************************************)
(* Deletion in the localStorage backend, checked under SpecLS              *)
(***************************************************************************)
\* the entries of st whose logical key under prefix is not empty and starts
\* with key
Matching(st, prefix, key) ==
    {physicalKey \in DOMAIN st :
        /\ startsWith(physicalKey, prefix \o key)
        /\ Len(physicalKey) > Len(prefix)}

\* C18: remove and clear delete exactly the entries that matched in the
\* store as it was when the operation started, in whatever order the store
\* enumerates its keys, and leave every other entry as it was.
C18_TwoPassDelete ==
    [][/\ lsLast'.op = "remove" =>
            /\ DOMAIN m_localStorage \ DOMAIN m_localStorage'
                 = (Matching(m_localStorage, prefix0, lsLast'.key)
                      \cup {prefix0 \o lsLast'.key}) \cap DOMAIN m_localStorage
            /\ m_localStorage'
                 = [k \in DOMAIN m_localStorage' |-> m_localStorage[k]]
       /\ lsLast'.op = "clear" =>
            /\ DOMAIN m_localStorage \ DOMAIN m_localStorage'
                 = Matching(m_localStorage, prefix0, <<>>)
            /\ m_localStorage'
                 = [k \in DOMAIN m_localStorage' |-> m_localStorage[k]]]_vars

\* C18 witness: clear has deleted two entries, which the store enumerated
\* one after the other.
C18_Witness ==
    /\ lsLast.op = "clear"
    /\ Cardinality(lsLast.val) >= 2

\* C19: clear and remove on a User-scope instance with an application leave
\* in place, with its value, every entry under the sys-tem prefix of the
\* same organization and application and every entry under the all-apps
\* prefixes.
C19_ScopeSeparationOnDelete ==
    [][(/\ lsLast'.op \in {"clear", "remove"}
        /\ scope = "UserScope"
        /\ application # <<>>)
       => \A physicalKey \in DOMAIN m_localStorage :
             (\/ startsWith(physicalKey, AppSysPrefix(organization, application))
              \/ startsWith(physicalKey, AllAppsPrefix(organization)))
             => /\ physicalKey \in DOMAIN m_localStorage'
                /\ m_localStorage'[physicalKey] = m_localStorage[physicalKey]]_vars

(***************************************************************************)
(* Termination of hydration, checked under FairSpecIDB                     *)
(***************************************************************************)
\* C20: an object that is not destroyed eventually is Ready or has
\* received an error callback, when every request is completed.
C20_HydrationTerminates ==
    \A a \in Addr :
        (a \in liveSettings) ~> (a \notin liveSettings \/ Ready(a) \/ failed[a])

====
